---- MODULE Spec2Model ----
(***************************************************************************)
(* Reference-counted ownership of smart-ptrs: ControlBlockBase and its two *)
(* variants, SharedPtr and WeakPtr (shared-ptr/shared.h and the WeakPtr    *)
(* header).  The live SharedPtr and WeakPtr instances of the client        *)
(* program are kept as multisets of their fields (ptr_, block_): which     *)
(* variable holds an instance does not matter to the library.  Control     *)
(* blocks and managed objects are heap allocations named by a fresh id;    *)
(* the object owned by block b has address b.                              *)
(***************************************************************************)
EXTENDS Integers, FiniteSets, Sequences, TLC

\* ------------------------------------------------------------------ bounds
MaxBlocks == 1     \* heap allocations (object + control block) ever made
NumShared == 2     \* SharedPtr instances alive at one time
NumWeak == 2       \* WeakPtr instances alive at one time
MaxPtrs == 3       \* raw pointers ever handed to a UniquePtr
NumUnique == 2     \* UniquePtr instances alive at one time

BlockIds == 1..MaxBlocks
nullptr == 0
\* address of a sub-object, used as the second argument of the aliasing ctor
AliasPtr == MaxBlocks + 1
\* the raw pointers handed to the aliasing constructor
AliasInputs == {AliasPtr}
\* the values of UniquePtr::uptr_.GetFirst(): nullptr and the raw pointers
RawPtrs == 0..MaxPtrs

VARIABLES
    blocks,   \* id -> control block (counters, variant, ghost call counts)
    objs,     \* id -> managed object (lifetime, ghost call counts)
    shared,   \* fields of a SharedPtr -> number of live instances with them
    weak,     \* fields of a WeakPtr -> number of live instances with them
    nextId,   \* next fresh heap id
    last,     \* the operation performed by the last step and its outcome
    unique    \* raw pointer -> number of live UniquePtr instances holding it

vars == <<blocks, objs, shared, weak, nextId, last, unique>>

\* ------------------------------------------------------------ heap records
\* struct ControlBlockBase { int shared_refs = 0, weak_refs = 0; } plus the
\* variant (ControlBlockPtr keeps ptr_, ControlBlockHolder keeps storage_).
\* released / deleted count the calls of IfNoShared and of `delete block_`.
\* early counts the `delete block_` made while the object was still alive.
\* stale counts the reads and writes of the block's fields made after it was
\* deallocated.
NoBlock ==
    [st |-> "none", kind |-> "none", shared_refs |-> 0, weak_refs |-> 0,
     ptr_ |-> nullptr, released |-> 0, deleted |-> 0, early |-> 0,
     stale |-> 0]

ControlBlockPtr(ptr) ==
    [st |-> "live", kind |-> "ptr", shared_refs |-> 0, weak_refs |-> 0,
     ptr_ |-> ptr, released |-> 0, deleted |-> 0, early |-> 0,
     stale |-> 0]

ControlBlockHolder ==
    [st |-> "live", kind |-> "holder", shared_refs |-> 0, weak_refs |-> 0,
     ptr_ |-> nullptr, released |-> 0, deleted |-> 0, early |-> 0,
     stale |-> 0]

\* A managed object: dtors counts destructor runs, frees counts separate
\* deallocations of the object's own storage (operator delete on the object).
NoObj == [st |-> "none", dtors |-> 0, frees |-> 0]
NewObj == [st |-> "alive", dtors |-> 0, frees |-> 0]

\* A handle: T* ptr_; ControlBlockBase* block_ (0 is nullptr).
Handle(p, b) == [ptr_ |-> p, block_ |-> b]
Empty == Handle(nullptr, nullptr)
Handles == [ptr_ : 0..AliasPtr, block_ : 0..MaxBlocks]

\* The live instances of a handle class: one more, one less, how many.
Add(insts, h) == [insts EXCEPT ![h] = @ + 1]
Remove(insts, h) == [insts EXCEPT ![h] = @ - 1]
RECURSIVE CountIn(_, _)
CountIn(insts, hs) ==
    IF hs = {} THEN 0
    ELSE LET h == CHOOSE x \in hs : TRUE
         IN insts[h] + CountIn(insts, hs \ {h})
LiveSet(insts) == {h \in Handles : insts[h] > 0}
Size(insts) == CountIn(insts, LiveSet(insts))
OnBlock(b) == {h \in Handles : h.block_ = b}

Heap == [blocks |-> blocks, objs |-> objs]

\* What the last step left to observe: the exception it raised, and its name
\* when it is one of the operations whose result the properties below inspect.
Observed ==
    {"init", "WeakLock", "SharedCtorPromote", "SelfAssign", "MoveCtor",
     "Rebind", "ListAdvance", "UniqueAssignMove", "UniqueSelfAssignMove"}

Op(name, r) ==
    [op |-> IF name \in Observed THEN name ELSE "other", raised |-> r]

\* ------------------------------------------------------- control blocks
\* `delete ptr_` of ControlBlockPtr::IfNoShared: destructor + deallocation
\* (a delete of nullptr does nothing).
DeleteObj(H, o) ==
    IF o = nullptr THEN H
    ELSE [H EXCEPT !.objs[o].st = "destroyed",
                   !.objs[o].dtors = @ + 1,
                   !.objs[o].frees = @ + 1]

\* ControlBlockPtr::IfNoShared
IfNoSharedPtr(H, b) ==
    LET H1 == DeleteObj(H, H.blocks[b].ptr_)
    IN [H1 EXCEPT !.blocks[b].ptr_ = nullptr,
                  !.blocks[b].released = @ + 1]

\* an inline block that deletes its object as ControlBlockPtr does
IfNoSharedHolderDelete(H, b) ==
    LET H1 == DeleteObj(H, b)
    IN [H1 EXCEPT !.blocks[b].released = @ + 1]

\* ControlBlockHolder::IfNoShared: destructor in place, storage_ stays
IfNoSharedHolder(H, b) ==
    [H EXCEPT !.objs[b].st = "destroyed",
              !.objs[b].dtors = @ + 1,
              !.blocks[b].released = @ + 1]

\* virtual dispatch of ControlBlockBase::IfNoShared
IfNoShared(H, b) ==
    IF H.blocks[b].kind = "ptr" THEN IfNoSharedPtr(H, b)
    ELSE IfNoSharedHolder(H, b)

\* `delete block_`
DeleteBlock(H, b) ==
    [H EXCEPT !.blocks[b].st = "freed",
              !.blocks[b].deleted = @ + 1,
              !.blocks[b].early = IF H.objs[b].st = "alive" THEN @ + 1 ELSE @]

IncShared(H, b) ==
    IF b # nullptr THEN [H EXCEPT !.blocks[b].shared_refs = @ + 1] ELSE H

IncWeak(H, b) ==
    IF b # nullptr THEN [H EXCEPT !.blocks[b].weak_refs = @ + 1] ELSE H

\* ------------------------------------------------------------ destructors
\* a destructor that calls IfNoShared on every destruction
DestroySharedEager(H, h) ==
    IF h.block_ = nullptr THEN H
    ELSE LET b == h.block_
             H1 == [H EXCEPT !.blocks[b].shared_refs = @ - 1]
             H2 == IfNoShared(H1, b)
         IN IF H2.blocks[b].shared_refs + H2.blocks[b].weak_refs = 0
            THEN DeleteBlock(H2, b) ELSE H2

\* a destructor that deletes the block as soon as the strong count is zero
DestroySharedOnePhase(H, h) ==
    IF h.block_ = nullptr THEN H
    ELSE LET b == h.block_
             H1 == [H EXCEPT !.blocks[b].shared_refs = @ - 1]
             H2 == IF H1.blocks[b].shared_refs = 0 THEN IfNoShared(H1, b) ELSE H1
         IN IF H2.blocks[b].shared_refs = 0
            THEN DeleteBlock(H2, b) ELSE H2

\* a destructor that deletes the block before it releases the object
DestroySharedDeleteFirst(H, h) ==
    IF h.block_ = nullptr THEN H
    ELSE LET b == h.block_
             H1 == [H EXCEPT !.blocks[b].shared_refs = @ - 1]
             H2 == IF H1.blocks[b].shared_refs + H1.blocks[b].weak_refs = 0
                   THEN DeleteBlock(H1, b) ELSE H1
         IN IF H2.blocks[b].shared_refs = 0 THEN IfNoShared(H2, b) ELSE H2

\* SharedPtr::~SharedPtr
DestroyShared(H, h) ==
    IF h.block_ = nullptr THEN H
    ELSE LET b == h.block_
             H1 == [H EXCEPT !.blocks[b].shared_refs = @ - 1]
             H2 == IF H1.blocks[b].shared_refs = 0 THEN IfNoShared(H1, b) ELSE H1
         IN IF H2.blocks[b].shared_refs + H2.blocks[b].weak_refs = 0
            THEN DeleteBlock(H2, b) ELSE H2

\* a destructor that never deletes the block
DestroyWeakNoDelete(H, h) ==
    IF h.block_ = nullptr THEN H
    ELSE [H EXCEPT !.blocks[h.block_].weak_refs = @ - 1]

\* a destructor that deletes the block with the last WeakPtr, owners or not
DestroyWeakEager(H, h) ==
    IF h.block_ = nullptr THEN H
    ELSE LET b == h.block_
             H1 == [H EXCEPT !.blocks[b].weak_refs = @ - 1]
         IN IF H1.blocks[b].weak_refs = 0
            THEN DeleteBlock(H1, b) ELSE H1

\* WeakPtr::~WeakPtr
DestroyWeak(H, h) ==
    IF h.block_ = nullptr THEN H
    ELSE LET b == h.block_
             H1 == [H EXCEPT !.blocks[b].weak_refs = @ - 1]
         IN IF H1.blocks[b].shared_refs + H1.blocks[b].weak_refs = 0
            THEN DeleteBlock(H1, b) ELSE H1

\* ------------------------------------------------------------- observers
\* SharedPtr::UseCount and WeakPtr::UseCount
UseCount(H, h) ==
    IF h.block_ # nullptr THEN H.blocks[h.block_].shared_refs ELSE 0

\* WeakPtr::Expired
Expired(H, h) == UseCount(H, h) = 0

\* SharedPtr::Get
Get(h) == h.ptr_

\* ----------------------------------------------------------------- state
Init ==
    /\ blocks = [b \in BlockIds |-> NoBlock]
    /\ objs = [b \in BlockIds |-> NoObj]
    /\ shared = [h \in Handles |-> 0]
    /\ weak = [h \in Handles |-> 0]
    /\ nextId = 1
    /\ last = Op("init", "none")
    /\ unique = [p \in RawPtrs |-> 0]

SetHeap(H) == blocks' = H.blocks /\ objs' = H.objs

\* room for one more instance / a live instance with these fields
CanConstruct(insts, n) == Size(insts) < n
Live(insts, h) == insts[h] > 0
\* this and other are live; they are one instance (self) or two
LivePair(insts, this, other, self) ==
    /\ Live(insts, this) /\ Live(insts, other)
    /\ IF self THEN this = other ELSE (this # other \/ insts[this] >= 2)

\* ------------------------------------------------ SharedPtr constructors
\* Each constructor yields the heap after it, the constructed handle and the
\* exception it raised ("none" when the handle was constructed).
Built(H, h) == [H |-> H, h |-> h, raised |-> "none"]
Threw(H, e) == [H |-> H, h |-> Empty, raised |-> e]
\* the instances after a construction: nothing is constructed by a throw
Constructed(insts, r) == IF r.raised = "none" THEN Add(insts, r.h) ELSE insts

\* explicit SharedPtr(Y* ptr): `new ControlBlockPtr<Y>(ptr)` may throw
\* std::bad_alloc (alloc = FALSE); ptr is the object with address id.
SharedFromRaw(H, id, alloc) ==
    IF ~alloc THEN Threw(H, "bad_alloc")
    ELSE Built([H EXCEPT !.blocks[id] =
                    [ControlBlockPtr(id) EXCEPT !.shared_refs = 1]],
               Handle(id, id))

\* explicit SharedPtr(Y* ptr, ControlBlockBase* block)
SharedFromBlock(H, ptr, b) == Built(IncShared(H, b), Handle(ptr, b))

\* a copy constructor that forgets ++(block_->shared_refs)
SharedCopyNoCount(H, other) == Built(H, Handle(other.ptr_, other.block_))

\* SharedPtr(const SharedPtr& other)
SharedCopy(H, other) ==
    Built(IncShared(H, other.block_), Handle(other.ptr_, other.block_))

\* a move constructor that counts the new handle as one more owner
SharedMoveCounting(H, other) ==
    Built(IncShared(H, other.block_), Handle(other.ptr_, other.block_))

\* SharedPtr(SharedPtr&& other): the new handle; other is left Empty by the
\* caller of this operator
SharedMove(H, other) == Built(H, Handle(other.ptr_, other.block_))

\* an aliasing constructor that forgets ++(block_->shared_refs)
SharedAliasNoCount(H, other, ptr) == Built(H, Handle(ptr, other.block_))

\* SharedPtr(const SharedPtr<Y>& other, T* ptr)
SharedAlias(H, other, ptr) ==
    Built(IncShared(H, other.block_), Handle(ptr, other.block_))

\* a promotion that does not test Expired()
SharedPromoteUnchecked(H, other) ==
    Built(IncShared(H, other.block_), Handle(other.ptr_, other.block_))

\* explicit SharedPtr(const WeakPtr<T>& other)
SharedPromote(H, other) ==
    IF Expired(H, other) THEN Threw(H, "BadWeakPtr")
    ELSE Built(IncShared(H, other.block_), Handle(other.ptr_, other.block_))

\* a MakeShared that runs the object's destructor when its constructor threw
MakeSharedUnwinding(H, id, result) ==
    IF result = "bad_alloc" THEN Threw(H, "bad_alloc")
    ELSE IF result = "ctor_throw"
    THEN Threw(IfNoSharedHolder([H EXCEPT !.blocks[id] =
                   [ControlBlockHolder EXCEPT !.st = "freed"]], id), "ctor_throw")
    ELSE SharedFromBlock([H EXCEPT !.blocks[id] = ControlBlockHolder,
                                   !.objs[id] = NewObj], id, id)

\* MakeShared: one allocation of a ControlBlockHolder<T> (result = "ok"),
\* which may fail (result = "bad_alloc") or whose T constructor may throw
\* (result = "ctor_throw": the new-expression releases the allocation).
MakeShared(H, id, result) ==
    IF result = "bad_alloc" THEN Threw(H, "bad_alloc")
    ELSE IF result = "ctor_throw"
    THEN Threw([H EXCEPT !.blocks[id] =
                   [ControlBlockHolder EXCEPT !.st = "freed"]], "ctor_throw")
    ELSE SharedFromBlock([H EXCEPT !.blocks[id] = ControlBlockHolder,
                                   !.objs[id] = NewObj], id, id)

\* SharedPtr::Swap / WeakPtr::Swap as seen by a temporary tmp and the target
\* *this: the pair <<temporary after, *this after>>
SwapFields(tmp, this) == <<this, tmp>>

\* --------------------------------------------------- SharedPtr operations
\* SharedPtr<T> s / SharedPtr<T> s(nullptr)
SharedDefault ==
    /\ CanConstruct(shared, NumShared)
    /\ shared' = Add(shared, Empty)
    /\ last' = Op("SharedDefault", "none")
    /\ UNCHANGED <<blocks, objs, weak, nextId, unique>>

\* SharedPtr<T> s(new Y): the caller's `new Y` succeeded, then the constructor
SharedCtorRaw(alloc) ==
    /\ CanConstruct(shared, NumShared)
    /\ nextId <= MaxBlocks
    /\ LET H0 == [Heap EXCEPT !.objs[nextId] = NewObj]
           r == SharedFromRaw(H0, nextId, alloc)
       IN /\ SetHeap(r.H)
          /\ shared' = Constructed(shared, r)
          /\ last' = Op("SharedCtorRaw", r.raised)
    /\ nextId' = nextId + 1
    /\ UNCHANGED <<weak, unique>>

\* auto s = MakeShared<T>(args...)
SharedCtorMake(result) ==
    /\ CanConstruct(shared, NumShared)
    /\ nextId <= MaxBlocks
    /\ LET r == MakeShared(Heap, nextId, result)
       IN /\ SetHeap(r.H)
          /\ shared' = Constructed(shared, r)
          /\ last' = Op("SharedCtorMake", r.raised)
    /\ nextId' = IF result = "bad_alloc" THEN nextId ELSE nextId + 1
    /\ UNCHANGED <<weak, unique>>

\* SharedPtr<T> s(other)
SharedCtorCopy(other) ==
    /\ CanConstruct(shared, NumShared) /\ Live(shared, other)
    /\ LET r == SharedCopy(Heap, other)
       IN /\ SetHeap(r.H)
          /\ shared' = Constructed(shared, r)
    /\ last' = Op("SharedCtorCopy", "none")
    /\ UNCHANGED <<weak, nextId, unique>>

\* SharedPtr<T> s(std::move(other)): other.ptr_ = other.block_ = nullptr
SharedCtorMove(other) ==
    /\ CanConstruct(shared, NumShared) /\ Live(shared, other)
    /\ LET r == SharedMove(Heap, other)
       IN /\ SetHeap(r.H)
          /\ shared' = Constructed(Add(Remove(shared, other), Empty), r)
    /\ last' = Op("MoveCtor", "none")
    /\ UNCHANGED <<weak, nextId, unique>>

\* SharedPtr<T> s(other, ptr)
SharedCtorAlias(other, ptr) ==
    /\ CanConstruct(shared, NumShared) /\ Live(shared, other)
    /\ LET r == SharedAlias(Heap, other, ptr)
       IN /\ SetHeap(r.H)
          /\ shared' = Constructed(shared, r)
    /\ last' = Op("SharedCtorAlias", "none")
    /\ UNCHANGED <<weak, nextId, unique>>

\* SharedPtr<T> s(w): an exception leaves s unconstructed
SharedCtorPromote(w) ==
    /\ CanConstruct(shared, NumShared) /\ Live(weak, w)
    /\ LET r == SharedPromote(Heap, w)
       IN /\ SetHeap(r.H)
          /\ shared' = Constructed(shared, r)
          /\ last' = Op("SharedCtorPromote", r.raised)
    /\ UNCHANGED <<weak, nextId, unique>>

\* a copy assignment that releases *this first and then copies other
SharedAssignCopyReleaseFirst(this, other, self) ==
    /\ LivePair(shared, this, other, self)
    /\ LET r == SharedCopy(DestroyShared(Heap, this), other)
       IN /\ SetHeap(r.H)
          /\ shared' = Add(Remove(shared, this), r.h)
    /\ last' = Op(IF self THEN "SelfAssign" ELSE "Rebind", "none")
    /\ UNCHANGED <<weak, nextId, unique>>

\* this = other: SharedPtr<T>(other).Swap(*this), then the temporary is
\* destroyed
SharedAssignCopy(this, other, self) ==
    /\ LivePair(shared, this, other, self)
    /\ LET r == SharedCopy(Heap, other)
           sw == SwapFields(r.h, this)
       IN /\ SetHeap(DestroyShared(r.H, sw[1]))
          /\ shared' = Add(Remove(shared, this), sw[2])
    /\ last' = Op(IF self THEN "SelfAssign" ELSE "Rebind", "none")
    /\ UNCHANGED <<weak, nextId, unique>>

\* a move assignment that releases *this first and then steals from other
SharedAssignMoveReleaseFirst(this, other, self) ==
    /\ LivePair(shared, this, other, self)
    /\ SetHeap(DestroyShared(Heap, this))
    /\ shared' = Add(Remove(shared, this), Empty)
    /\ last' = Op(IF self THEN "SelfAssign" ELSE "SharedAssignMove", "none")
    /\ UNCHANGED <<weak, nextId, unique>>

\* this = std::move(other): SharedPtr<T>(std::move(other)).Swap(*this); the
\* move constructor empties other, which is *this when self
SharedAssignMove(this, other, self) ==
    /\ LivePair(shared, this, other, self)
    /\ LET r == SharedMove(Heap, other)
           moved == Add(Remove(shared, other), Empty)
           target == IF self THEN Empty ELSE this
           sw == SwapFields(r.h, target)
       IN /\ SetHeap(DestroyShared(r.H, sw[1]))
          /\ shared' = Add(Remove(moved, target), sw[2])
    /\ last' = Op(IF self THEN "SelfAssign" ELSE "SharedAssignMove", "none")
    /\ UNCHANGED <<weak, nextId, unique>>

\* this.Reset(): SharedPtr().Swap(*this)
SharedReset(this) ==
    /\ Live(shared, this)
    /\ LET sw == SwapFields(Empty, this)
       IN /\ SetHeap(DestroyShared(Heap, sw[1]))
          /\ shared' = Add(Remove(shared, this), sw[2])
    /\ last' = Op("Rebind", "none")
    /\ UNCHANGED <<weak, nextId, unique>>

\* this.Reset(new Y): SharedPtr<T>(ptr).Swap(*this); an exception of the
\* constructor leaves *this untouched
SharedResetPtr(this, alloc) ==
    /\ Live(shared, this)
    /\ nextId <= MaxBlocks
    /\ LET H0 == [Heap EXCEPT !.objs[nextId] = NewObj]
           r == SharedFromRaw(H0, nextId, alloc)
           sw == SwapFields(r.h, this)
       IN /\ IF r.raised # "none"
             THEN SetHeap(r.H) /\ UNCHANGED shared
             ELSE /\ SetHeap(DestroyShared(r.H, sw[1]))
                  /\ shared' = Add(Remove(shared, this), sw[2])
          /\ last' = Op("Rebind", r.raised)
    /\ nextId' = nextId + 1
    /\ UNCHANGED <<weak, unique>>

\* this.Swap(other)
SharedSwap(this, other) ==
    /\ LivePair(shared, this, other, FALSE)
    /\ LET sw == SwapFields(other, this)
       IN shared' = Add(Add(Remove(Remove(shared, this), other), sw[1]), sw[2])
    /\ last' = Op("SharedSwap", "none")
    /\ UNCHANGED <<blocks, objs, weak, nextId, unique>>

\* a SharedPtr goes out of scope
SharedDtor(this) ==
    /\ Live(shared, this)
    /\ SetHeap(DestroyShared(Heap, this))
    /\ shared' = Remove(shared, this)
    /\ last' = Op("SharedDtor", "none")
    /\ UNCHANGED <<weak, nextId, unique>>

\* ---------------------------------------------------- WeakPtr constructors
\* a copy constructor that forgets ++block_->weak_refs
WeakCopyNoCount(H, other) == Built(H, Handle(other.ptr_, other.block_))

\* WeakPtr(const WeakPtr& other)
WeakCopy(H, other) ==
    Built(IncWeak(H, other.block_), Handle(other.ptr_, other.block_))

\* WeakPtr(WeakPtr&& other): the new handle; other is left Empty by the
\* caller of this operator
WeakMove(H, other) == Built(H, Handle(other.ptr_, other.block_))

\* a WeakPtr that also counts as an owner of the object
WeakFromSharedOwning(H, other) ==
    Built(IncShared(IncWeak(H, other.block_), other.block_),
          Handle(other.ptr_, other.block_))

\* WeakPtr(const SharedPtr<Y>& other)
WeakFromShared(H, other) ==
    Built(IncWeak(H, other.block_), Handle(other.ptr_, other.block_))

\* a Lock that relies on the promoting constructor's failure path
LockByPromote(H, this) == SharedPromote(H, this)

\* WeakPtr::Lock
Lock(H, this) ==
    IF Expired(H, this) THEN Built(H, Empty)
    ELSE SharedPromote(H, this)

\* ----------------------------------------------------- WeakPtr operations
\* WeakPtr<T> w
WeakDefault ==
    /\ CanConstruct(weak, NumWeak)
    /\ weak' = Add(weak, Empty)
    /\ last' = Op("WeakDefault", "none")
    /\ UNCHANGED <<blocks, objs, shared, nextId, unique>>

\* WeakPtr<T> w(other)
WeakCtorCopy(other) ==
    /\ CanConstruct(weak, NumWeak) /\ Live(weak, other)
    /\ LET r == WeakCopy(Heap, other)
       IN /\ SetHeap(r.H)
          /\ weak' = Constructed(weak, r)
    /\ last' = Op("WeakCtorCopy", "none")
    /\ UNCHANGED <<shared, nextId, unique>>

\* WeakPtr<T> w(std::move(other))
WeakCtorMove(other) ==
    /\ CanConstruct(weak, NumWeak) /\ Live(weak, other)
    /\ LET r == WeakMove(Heap, other)
       IN /\ SetHeap(r.H)
          /\ weak' = Constructed(Add(Remove(weak, other), Empty), r)
    /\ last' = Op("MoveCtor", "none")
    /\ UNCHANGED <<shared, nextId, unique>>

\* WeakPtr<T> w(s)
WeakCtorShared(s) ==
    /\ CanConstruct(weak, NumWeak) /\ Live(shared, s)
    /\ LET r == WeakFromShared(Heap, s)
       IN /\ SetHeap(r.H)
          /\ weak' = Constructed(weak, r)
    /\ last' = Op("WeakCtorShared", "none")
    /\ UNCHANGED <<shared, nextId, unique>>

\* this = other: WeakPtr<T>(other).Swap(*this), then the temporary is
\* destroyed
WeakAssignCopy(this, other, self) ==
    /\ LivePair(weak, this, other, self)
    /\ LET r == WeakCopy(Heap, other)
           sw == SwapFields(r.h, this)
       IN /\ SetHeap(DestroyWeak(r.H, sw[1]))
          /\ weak' = Add(Remove(weak, this), sw[2])
    /\ last' = Op(IF self THEN "SelfAssign" ELSE "WeakAssignCopy", "none")
    /\ UNCHANGED <<shared, nextId, unique>>

\* this = std::move(other): WeakPtr<T>(std::move(other)).Swap(*this)
WeakAssignMove(this, other, self) ==
    /\ LivePair(weak, this, other, self)
    /\ LET r == WeakMove(Heap, other)
           moved == Add(Remove(weak, other), Empty)
           target == IF self THEN Empty ELSE this
           sw == SwapFields(r.h, target)
       IN /\ SetHeap(DestroyWeak(r.H, sw[1]))
          /\ weak' = Add(Remove(moved, target), sw[2])
    /\ last' = Op(IF self THEN "SelfAssign" ELSE "WeakAssignMove", "none")
    /\ UNCHANGED <<shared, nextId, unique>>

\* this = s: WeakPtr<T>(sptr).Swap(*this)
WeakAssignShared(this, s) ==
    /\ Live(weak, this) /\ Live(shared, s)
    /\ LET r == WeakFromShared(Heap, s)
           sw == SwapFields(r.h, this)
       IN /\ SetHeap(DestroyWeak(r.H, sw[1]))
          /\ weak' = Add(Remove(weak, this), sw[2])
    /\ last' = Op("WeakAssignShared", "none")
    /\ UNCHANGED <<shared, nextId, unique>>

\* this.Reset(): WeakPtr<T>().Swap(*this)
WeakReset(this) ==
    /\ Live(weak, this)
    /\ LET sw == SwapFields(Empty, this)
       IN /\ SetHeap(DestroyWeak(Heap, sw[1]))
          /\ weak' = Add(Remove(weak, this), sw[2])
    /\ last' = Op("WeakReset", "none")
    /\ UNCHANGED <<shared, nextId, unique>>

\* this.Swap(other)
WeakSwap(this, other) ==
    /\ LivePair(weak, this, other, FALSE)
    /\ LET sw == SwapFields(other, this)
       IN weak' = Add(Add(Remove(Remove(weak, this), other), sw[1]), sw[2])
    /\ last' = Op("WeakSwap", "none")
    /\ UNCHANGED <<blocks, objs, shared, nextId, unique>>

\* a WeakPtr goes out of scope
WeakDtor(this) ==
    /\ Live(weak, this)
    /\ SetHeap(DestroyWeak(Heap, this))
    /\ weak' = Remove(weak, this)
    /\ last' = Op("WeakDtor", "none")
    /\ UNCHANGED <<shared, nextId, unique>>

\* auto s = w.Lock(): an exception would leave s unconstructed
WeakLock(w) ==
    /\ CanConstruct(shared, NumShared) /\ Live(weak, w)
    /\ LET r == Lock(Heap, w)
       IN /\ SetHeap(r.H)
          /\ shared' = Constructed(shared, r)
          /\ last' = Op("WeakLock", r.raised)
    /\ UNCHANGED <<weak, nextId, unique>>

Next ==
    \/ SharedDefault
    \/ \E alloc \in BOOLEAN : SharedCtorRaw(alloc)
    \/ \E r \in {"ok", "bad_alloc", "ctor_throw"} : SharedCtorMake(r)
    \/ \E t \in LiveSet(shared) : SharedCtorCopy(t)
    \/ \E t \in LiveSet(shared) : SharedCtorMove(t)
    \/ \E t \in LiveSet(shared), p \in AliasInputs : SharedCtorAlias(t, p)
    \/ \E w \in LiveSet(weak) : SharedCtorPromote(w)
    \/ \E s, t \in LiveSet(shared), self \in BOOLEAN : SharedAssignCopy(s, t, self)
    \/ \E s, t \in LiveSet(shared), self \in BOOLEAN : SharedAssignMove(s, t, self)
    \/ \E s \in LiveSet(shared) : SharedReset(s)
    \/ \E s \in LiveSet(shared), alloc \in BOOLEAN : SharedResetPtr(s, alloc)
    \/ \E s, t \in LiveSet(shared) : SharedSwap(s, t)
    \/ \E s \in LiveSet(shared) : SharedDtor(s)
    \/ WeakDefault
    \/ \E v \in LiveSet(weak) : WeakCtorCopy(v)
    \/ \E v \in LiveSet(weak) : WeakCtorMove(v)
    \/ \E s \in LiveSet(shared) : WeakCtorShared(s)
    \/ \E w, v \in LiveSet(weak), self \in BOOLEAN : WeakAssignCopy(w, v, self)
    \/ \E w, v \in LiveSet(weak), self \in BOOLEAN : WeakAssignMove(w, v, self)
    \/ \E w \in LiveSet(weak), s \in LiveSet(shared) : WeakAssignShared(w, s)
    \/ \E w \in LiveSet(weak) : WeakReset(w)
    \/ \E w, v \in LiveSet(weak) : WeakSwap(w, v)
    \/ \E w \in LiveSet(weak) : WeakDtor(w)
    \/ \E w \in LiveSet(weak) : WeakLock(w)

Spec == Init /\ [][Next]_vars

\* ------------------------------------------------------------- properties
\* the number of live SharedPtr / WeakPtr instances whose block_ is b
SharedOwners(b) == CountIn(shared, OnBlock(b) \cap LiveSet(shared))
WeakOwners(b) == CountIn(weak, OnBlock(b) \cap LiveSet(weak))

\* C1: for every control block that has not been deallocated, shared_refs
\* equals the number of live SharedPtr instances whose block_ is that block.
SharedRefsCountOwners ==
    \A b \in BlockIds :
        blocks[b].st = "live" => blocks[b].shared_refs = SharedOwners(b)

\* two live SharedPtr share one block
TwoOwnersReached ==
    \E b \in BlockIds :
        /\ blocks[b].st = "live"
        /\ SharedOwners(b) = 2
        /\ blocks[b].shared_refs = 2

\* C2: the managed object of a block is released (IfNoShared is called) at
\* most once, in exactly the steps in which shared_refs goes from 1 to 0,
\* and never while shared_refs >= 1.
ReleasedOnceAtLastOwner ==
    [][\A b \in BlockIds :
          /\ (blocks'[b].released # blocks[b].released)
                <=> (blocks[b].shared_refs = 1 /\ blocks'[b].shared_refs = 0)
          /\ blocks'[b].released = blocks[b].released
                \/ blocks'[b].released = blocks[b].released + 1
          /\ blocks'[b].released <= 1
          /\ blocks'[b].shared_refs >= 1 => blocks'[b].released = 0
          /\ (blocks'[b].st = "live" /\ blocks'[b].shared_refs = 0)
                => blocks'[b].released = 1]_vars

\* the object was released by the last SharedPtr while a WeakPtr remains
ReleasedReached ==
    \E b \in BlockIds :
        /\ blocks[b].released = 1
        /\ blocks[b].shared_refs = 0
        /\ blocks[b].st = "live"
        /\ WeakOwners(b) >= 1

\* While every handle is held outside the managed objects, a control block
\* is deallocated at most once, in exactly the steps in which shared_refs +
\* weak_refs becomes 0, whichever handle goes last, and never while either
\* counter is positive (BlockDeletedAtMostOnce below is the general case).
BlockDeletedOnceAtZero ==
    [][\A b \in BlockIds :
          /\ (blocks'[b].deleted # blocks[b].deleted)
                <=> /\ blocks[b].st = "live"
                    /\ blocks[b].shared_refs + blocks[b].weak_refs > 0
                    /\ blocks'[b].shared_refs + blocks'[b].weak_refs = 0
          /\ blocks'[b].deleted # blocks[b].deleted
                => blocks'[b].deleted = 1 /\ blocks'[b].st = "freed"
          /\ (blocks'[b].shared_refs > 0 \/ blocks'[b].weak_refs > 0)
                => blocks'[b].deleted = 0 /\ blocks'[b].st = "live"]_vars

\* a block has been released and deleted, and no handle is left on it
DeletedReached ==
    \E b \in BlockIds :
        /\ blocks[b].deleted = 1
        /\ blocks[b].released = 1
        /\ blocks[b].st = "freed"
        /\ SharedOwners(b) = 0 /\ WeakOwners(b) = 0

\* C4: Lock() never raises; on a WeakPtr that is not expired it returns a
\* SharedPtr on the WeakPtr's block with UseCount() one more than the strong
\* count before, on an expired one (strong count 0 or no block) it returns
\* an empty SharedPtr with UseCount() 0 and changes no counter.
LockNeverRaises ==
    [][\A w \in Handles :
          (last'.op = "WeakLock" /\ WeakLock(w)) =>
            /\ last'.raised = "none"
            /\ weak' = weak
            /\ IF ~Expired(Heap, w)
               THEN LET r == Handle(w.ptr_, w.block_)
                    IN /\ shared' = Add(shared, r)
                       /\ r.block_ # nullptr
                       /\ UseCount(Heap', r) = UseCount(Heap, w) + 1
                       /\ UseCount(Heap', r) > 0
               ELSE /\ shared' = Add(shared, Empty)
                    /\ UseCount(Heap', Empty) = 0
                    /\ blocks' = blocks]_vars

\* Lock() has just returned an owner of the WeakPtr's block
LockedReached ==
    /\ last.op = "WeakLock"
    /\ \E b \in BlockIds :
          /\ blocks[b].st = "live"
          /\ WeakOwners(b) >= 1
          /\ SharedOwners(b) = 2

\* C5: constructing a SharedPtr from an expired WeakPtr (no block included)
\* raises BadWeakPtr and changes neither the WeakPtr nor any counter; from a
\* WeakPtr that is not expired it never raises and adds exactly 1 to
\* shared_refs of the block.
PromoteRaisesIffExpired ==
    [][\A w \in Handles :
          (last'.op = "SharedCtorPromote" /\ SharedCtorPromote(w)) =>
            IF Expired(Heap, w)
            THEN /\ last'.raised = "BadWeakPtr"
                 /\ shared' = shared
                 /\ weak' = weak
                 /\ blocks' = blocks
            ELSE /\ last'.raised = "none"
                 /\ weak' = weak
                 /\ shared' = Add(shared, Handle(w.ptr_, w.block_))
                 /\ \A b \in BlockIds :
                       /\ blocks'[b].weak_refs = blocks[b].weak_refs
                       /\ blocks'[b].shared_refs =
                             IF b = w.block_
                             THEN blocks[b].shared_refs + 1
                             ELSE blocks[b].shared_refs]_vars

\* the promotion of a WeakPtr whose block outlived its object has raised
PromoteRaisedReached ==
    /\ last.op = "SharedCtorPromote"
    /\ last.raised = "BadWeakPtr"
    /\ \E b \in BlockIds :
          /\ blocks[b].st = "live"
          /\ blocks[b].shared_refs = 0
          /\ WeakOwners(b) >= 1

\* The observers of WeakPtr on a block whose object is gone.
SeesExpired(H, wk) ==
    \A w \in Handles :
        (wk[w] > 0 /\ w.block_ # nullptr
            /\ H.blocks[w.block_].st = "live"
            /\ H.blocks[w.block_].released = 1)
        => /\ Expired(H, w)
           /\ UseCount(H, w) = 0
           /\ Lock(H, w) = Built(H, Empty)

\* C6: two-phase release.  The step that takes shared_refs from 1 to 0
\* while a WeakPtr references the block releases the object and keeps the
\* block allocated; while the block stays allocated every WeakPtr on it is
\* expired with UseCount() 0 and Lock() empty, and the strong count stays 0
\* and the object destroyed.
TwoPhaseRelease ==
    [][/\ \A b \in BlockIds :
            /\ (blocks[b].shared_refs = 1 /\ blocks'[b].shared_refs = 0
                  /\ blocks[b].weak_refs >= 1)
                => /\ blocks'[b].released = 1
                   /\ objs'[b].st = "destroyed"
                   /\ blocks'[b].st = "live"
                   /\ blocks'[b].deleted = 0
            /\ blocks[b].released = 1
                => /\ blocks'[b].shared_refs = 0
                   /\ blocks'[b].released = 1
                   /\ objs'[b].st = "destroyed"
                   /\ \A h \in OnBlock(b) : shared'[h] = 0
       /\ SeesExpired(Heap', weak')]_vars

\* Lock() was called on a WeakPtr whose block outlived the object, and
\* returned nothing
ExpiredLockReached ==
    /\ last.op = "WeakLock"
    /\ last.raised = "none"
    /\ \E b \in BlockIds :
          /\ blocks[b].st = "live"
          /\ blocks[b].released = 1
          /\ blocks[b].shared_refs = 0
          /\ WeakOwners(b) >= 1
          /\ SharedOwners(b) = 0

\* C7: when the allocation of the control block fails in SharedPtr(Y*) or
\* Reset(Y*), no object is left allocated without an owner that will
\* release it.
AllocFailureLeavesNoLeak ==
    last.raised = "bad_alloc" =>
        \A o \in BlockIds :
            objs[o].st = "alive" =>
                blocks[o].st = "live" /\ blocks[o].shared_refs >= 1

\* C8: MakeShared returns a SharedPtr with UseCount() 1 on one fresh inline
\* block (shared_refs 1, weak_refs 0); the object of an inline block is
\* destroyed in place, once, in the step taking shared_refs from 1 to 0, and
\* its storage is never deallocated apart from the block.
MakeSharedInPlace ==
    [][/\ (nextId' # nextId /\ SharedCtorMake("ok")) =>
            \E b \in BlockIds :
                /\ blocks[b].st = "none"
                /\ shared' = Add(shared, Handle(b, b))
                /\ Get(Handle(b, b)) = b
                /\ UseCount(Heap', Handle(b, b)) = 1
                /\ blocks'[b].st = "live"
                /\ blocks'[b].kind = "holder"
                /\ blocks'[b].shared_refs = 1
                /\ blocks'[b].weak_refs = 0
                /\ objs'[b].st = "alive"
                /\ \A c \in BlockIds \ {b} : blocks'[c] = blocks[c]
       /\ \A b \in BlockIds :
            blocks'[b].kind = "holder" =>
                /\ (objs'[b].dtors # objs[b].dtors)
                      <=> (blocks[b].shared_refs = 1 /\ blocks'[b].shared_refs = 0)
                /\ objs'[b].dtors <= 1
                /\ objs'[b].dtors = 1 => objs'[b].st = "destroyed"
                /\ objs'[b].frees = 0]_vars

\* the object made by MakeShared was destroyed in place and its block, with
\* the storage, is still allocated for a WeakPtr
InPlaceDestroyedReached ==
    \E b \in BlockIds :
        /\ blocks[b].kind = "holder"
        /\ blocks[b].st = "live"
        /\ blocks[b].weak_refs >= 1
        /\ blocks[b].released = 1
        /\ objs[b].dtors = 1
        /\ objs[b].frees = 0

\* C9: SharedPtr(other, rawPtr) on an other that has a block yields a handle
\* with Get() = rawPtr on other's block, both with UseCount() one more than
\* before; the object stays alive as long as the aliasing handle lives and
\* is released when that handle is destroyed as the last owner.
AliasSharesOwnership ==
    [][/\ (shared' # shared /\ weak' = weak) =>
            \A t \in Handles, p \in AliasInputs :
                (shared[t] > 0 /\ t.block_ # nullptr /\ SharedCtorAlias(t, p)) =>
                    \E r \in Handles :
                        /\ shared' = Add(shared, r)
                        /\ Get(r) = p
                        /\ r.block_ = t.block_
                        /\ UseCount(Heap', r) = UseCount(Heap, t) + 1
                        /\ UseCount(Heap', t) = UseCount(Heap', r)
       /\ \A b \in BlockIds :
            shared'[Handle(AliasPtr, b)] > 0 =>
                /\ blocks'[b].st = "live"
                /\ blocks'[b].released = 0
                /\ objs'[b].st = "alive"
       /\ \A b \in BlockIds :
            (shared[Handle(AliasPtr, b)] > 0 /\ blocks[b].shared_refs = 1
                /\ weak' = weak /\ SharedDtor(Handle(AliasPtr, b))) =>
                /\ blocks'[b].released = 1
                /\ objs'[b].st = "destroyed"]_vars

\* the aliasing handle is the only owner left and the object is alive
AliasLastOwnerReached ==
    \E h \in Handles :
        /\ shared[h] = 1
        /\ h.ptr_ = AliasPtr
        /\ h.block_ # nullptr
        /\ blocks[h.block_].shared_refs = 1
        /\ SharedOwners(h.block_) = 1
        /\ objs[h.block_].st = "alive"

\* C10: x = x and x = std::move(x) on a SharedPtr and on a WeakPtr change
\* no counter, no handle, release no object and delete no block.
SelfAssignChangesNothing ==
    [][\A h \in Handles :
          (last'.op = "SelfAssign"
              /\ \/ SharedAssignCopy(h, h, TRUE)
                 \/ SharedAssignMove(h, h, TRUE)
                 \/ WeakAssignCopy(h, h, TRUE)
                 \/ WeakAssignMove(h, h, TRUE)) =>
            /\ blocks' = blocks /\ objs' = objs
            /\ shared' = shared /\ weak' = weak]_vars

\* the only owner of an object was assigned to itself (no WeakPtr exists, so
\* the self-assignment was one of a SharedPtr)
SelfAssignSoleOwnerReached ==
    /\ last.op = "SelfAssign"
    /\ Size(weak) = 0
    /\ \E b \in BlockIds :
          /\ blocks[b].st = "live"
          /\ blocks[b].shared_refs = 1
          /\ SharedOwners(b) = 1
          /\ objs[b].st = "alive"

\* C11: move construction of a SharedPtr and of a WeakPtr gives the new
\* handle the source's ptr_ and block_, leaves the source empty (nullptr, no
\* block, UseCount() 0) and changes no counter of any control block.
MoveTransfersOwnership ==
    [][last'.op = "MoveCtor" =>
        /\ blocks' = blocks /\ objs' = objs
        /\ \A t \in Handles :
              /\ (shared[t] > 0 /\ SharedCtorMove(t)) =>
                    /\ SharedMove(Heap, t) = Built(Heap, t)
                    /\ shared' = Add(Add(Remove(shared, t), Empty), t)
                    /\ weak' = weak
              /\ (weak[t] > 0 /\ WeakCtorMove(t)) =>
                    /\ WeakMove(Heap, t) = Built(Heap, t)
                    /\ weak' = Add(Add(Remove(weak, t), Empty), t)
                    /\ shared' = shared
        /\ Get(Empty) = nullptr /\ UseCount(Heap', Empty) = 0]_vars

\* a SharedPtr that owned an object alone was moved from: it is empty and the
\* new handle is the only owner
MovedFromReached ==
    /\ last.op = "MoveCtor"
    /\ Size(weak) = 0
    /\ shared[Empty] = 1
    /\ \E b \in BlockIds :
          /\ blocks[b].st = "live"
          /\ blocks[b].shared_refs = 1
          /\ SharedOwners(b) = 1
          /\ objs[b].st = "alive"

\* a step of a WeakPtr operation other than Lock()
WeakOperation ==
    \/ WeakDefault
    \/ \E v \in LiveSet(weak) :
          \/ WeakCtorCopy(v) \/ WeakCtorMove(v)
          \/ WeakReset(v) \/ WeakDtor(v)
          \/ \E s \in LiveSet(shared) : WeakAssignShared(v, s)
          \/ \E w \in LiveSet(weak) :
                \/ WeakSwap(w, v)
                \/ \E self \in BOOLEAN :
                      WeakAssignCopy(w, v, self) \/ WeakAssignMove(w, v, self)
    \/ \E s \in LiveSet(shared) : WeakCtorShared(s)

\* no object is released or destroyed and no shared_refs changes
StrongSideUnchanged ==
    /\ objs' = objs
    /\ \A b \in BlockIds :
          /\ blocks'[b].shared_refs = blocks[b].shared_refs
          /\ blocks'[b].released = blocks[b].released

\* C12: no WeakPtr operation other than Lock() releases the object or
\* changes shared_refs; Lock() changes shared_refs only on a WeakPtr that is
\* not expired, by the SharedPtr it returns.  The object is released in the
\* step that takes shared_refs to 0, however many WeakPtr exist, and no
\* block without a SharedPtr has a live object.
WeakNeverOwns ==
    [][/\ \/ StrongSideUnchanged
          \/ shared' # shared \/ nextId' # nextId
          \/ ~WeakOperation
       /\ \A w \in Handles :
            (last'.op = "WeakLock" /\ WeakLock(w)) =>
                /\ objs' = objs
                /\ \A b \in BlockIds :
                      /\ blocks'[b].released = blocks[b].released
                      /\ blocks'[b].shared_refs # blocks[b].shared_refs
                            => /\ b = w.block_
                               /\ ~Expired(Heap, w)
                               /\ shared' = Add(shared, Handle(w.ptr_, b))
       /\ \A b \in BlockIds :
            /\ (blocks[b].shared_refs = 1 /\ blocks'[b].shared_refs = 0)
                  => (blocks'[b].released = 1 /\ objs'[b].st = "destroyed")
            /\ (blocks'[b].st = "live" /\ \A h \in OnBlock(b) : shared'[h] = 0)
                  => objs'[b].st = "destroyed"]_vars

\* the object was released although two WeakPtr still reference its block
WeakOnlyLeftReached ==
    \E b \in BlockIds :
        /\ blocks[b].st = "live"
        /\ blocks[b].released = 1
        /\ objs[b].st = "destroyed"
        /\ SharedOwners(b) = 0
        /\ WeakOwners(b) = 2

\* C13: for every control block that has not been deallocated, weak_refs
\* equals the number of live WeakPtr instances whose block_ is that block,
\* and neither counter of any block is ever negative.
WeakRefsCountObservers ==
    \A b \in BlockIds :
        /\ blocks[b].st = "live" => blocks[b].weak_refs = WeakOwners(b)
        /\ blocks[b].shared_refs >= 0
        /\ blocks[b].weak_refs >= 0

\* two live WeakPtr observe a block that has one owner
TwoObserversReached ==
    \E b \in BlockIds :
        /\ blocks[b].st = "live"
        /\ WeakOwners(b) = 2
        /\ blocks[b].weak_refs = 2
        /\ blocks[b].shared_refs = 1

\* The handle that held block prev let go of it: shared_refs of prev drops by
\* 1, its object is released iff that was the last owner, and no block other
\* than prev and the newly acquired one changes.
ReleasedPrevious(prev, acquired) ==
    /\ prev # nullptr =>
          /\ blocks'[prev].shared_refs = blocks[prev].shared_refs - 1
          /\ blocks'[prev].weak_refs = blocks[prev].weak_refs
          /\ blocks'[prev].released =
                IF blocks[prev].shared_refs = 1 THEN 1 ELSE 0
          /\ objs'[prev].st =
                IF blocks[prev].shared_refs = 1 THEN "destroyed" ELSE "alive"
    /\ \A c \in BlockIds \ {prev, acquired} :
          blocks'[c] = blocks[c] /\ objs'[c] = objs[c]

MakeSharedThrowLeavesNothing ==
    [][/\ (last'.raised = "ctor_throw" /\ SharedCtorMake("ctor_throw")) =>
            /\ MakeShared(Heap, nextId, "ctor_throw").raised = "ctor_throw"
            /\ shared' = shared /\ weak' = weak
            /\ blocks'[nextId].st = "freed"
            /\ blocks'[nextId].shared_refs = 0
            /\ \A c \in BlockIds \ {nextId} :
                  blocks'[c] = blocks[c] /\ objs'[c] = objs[c]
       /\ \A b \in BlockIds :
            (blocks'[b].st = "freed" /\ blocks'[b].deleted = 0) =>
                /\ blocks'[b].released = 0
                /\ objs'[b].st = "none"
                /\ objs'[b].dtors = 0
                /\ \A h \in OnBlock(b) : shared'[h] = 0 /\ weak'[h] = 0]_vars

\* MakeShared has just failed in T's constructor
MakeSharedThrewReached ==
    /\ last.raised = "ctor_throw"
    /\ \E b \in BlockIds :
          /\ nextId = b + 1
          /\ blocks[b].st = "freed"
          /\ blocks[b].kind = "holder"
          /\ blocks[b].deleted = 0

\* C17: every live SharedPtr or WeakPtr with a block refers to a block that
\* has not been deallocated, and every live SharedPtr with a block refers to
\* one with shared_refs >= 1 whose object has not been released.
NoDanglingHandle ==
    \A h \in Handles :
        h.block_ # nullptr =>
            /\ shared[h] > 0 =>
                  /\ blocks[h.block_].st = "live"
                  /\ blocks[h.block_].shared_refs >= 1
                  /\ blocks[h.block_].released = 0
                  /\ objs[h.block_].st = "alive"
            /\ weak[h] > 0 => blocks[h.block_].st = "live"

\* a WeakPtr is the last handle of a block whose object is gone, next to a
\* SharedPtr that gave the block up
LastObserverReached ==
    \E h \in Handles :
        /\ h.block_ # nullptr
        /\ weak[h] = 1
        /\ WeakOwners(h.block_) = 1
        /\ blocks[h.block_].shared_refs = 0
        /\ blocks[h.block_].st = "live"
        /\ shared[Empty] >= 1

\* C18: a control block is deallocated only after its object was released
\* (IfNoShared ran earlier, or earlier in the same destructor call), so no
\* freed block has a live object; and once no SharedPtr and no WeakPtr of an
\* allocated block is left, the object and the block have both been freed.
ReleaseBeforeDelete ==
    \A b \in BlockIds :
        /\ blocks[b].early = 0
        /\ blocks[b].deleted >= 1 =>
              blocks[b].released = 1 /\ objs[b].st = "destroyed"
        /\ blocks[b].st = "freed" => objs[b].st # "alive"
        /\ (blocks[b].st # "none" /\ SharedOwners(b) = 0 /\ WeakOwners(b) = 0)
              => (blocks[b].st = "freed" /\ objs[b].st # "alive")

\* every handle of the program is gone and an object made by MakeShared has
\* been destroyed and then deallocated with its block
AllGoneReached ==
    /\ Size(shared) = 0 /\ Size(weak) = 0
    /\ \E b \in BlockIds :
          /\ blocks[b].kind = "holder"
          /\ blocks[b].deleted = 1
          /\ blocks[b].st = "freed"
          /\ objs[b].dtors = 1

\* ------------------------------------------- an object that observes itself
\* The client type struct Node { WeakPtr<Node> self; }: the managed object
\* holds a WeakPtr, which ~Node destroys from inside IfNoShared.
NewNode == [st |-> "alive", dtors |-> 0, frees |-> 0, self |-> Empty]

\* ~Node(): the node's lifetime ends, then the member self is destroyed by
\* WeakPtr::~WeakPtr
DestroyNode(H, o) ==
    LET H1 == [H EXCEPT !.objs[o].st = "destroyed",
                        !.objs[o].dtors = @ + 1,
                        !.objs[o].self = Empty]
    IN DestroyWeak(H1, H.objs[o].self)

\* IfNoShared of a block that manages a Node.  ControlBlockPtr: `delete ptr_`
\* runs ~Node and frees the node, then `ptr_ = nullptr` writes to the block,
\* which ~Node may have deallocated.  ControlBlockHolder: ~Node in place.
IfNoSharedNode(H, b) ==
    LET H1 == DestroyNode(H, b)
        H2 == IF H.blocks[b].kind = "ptr"
              THEN [H1 EXCEPT !.objs[b].frees = @ + 1,
                              !.blocks[b].ptr_ = nullptr,
                              !.blocks[b].stale =
                                  IF H1.blocks[b].st = "freed" THEN @ + 1 ELSE @]
              ELSE H1
    IN [H2 EXCEPT !.blocks[b].released = @ + 1]

\* SharedPtr<Node>::~SharedPtr.  After IfNoShared the destructor reads
\* block_->shared_refs + block_->weak_refs; when the block was deallocated
\* meanwhile the read is undefined: zero tells whether it yields 0, and then
\* `delete block_` runs a second time.
DestroySharedNode(H, h, zero) ==
    IF h.block_ = nullptr THEN H
    ELSE LET b == h.block_
             H1 == [H EXCEPT !.blocks[b].shared_refs = @ - 1]
             H2 == IF H1.blocks[b].shared_refs = 0
                   THEN IfNoSharedNode(H1, b) ELSE H1
         IN IF H2.blocks[b].st = "freed"
            THEN LET H3 == [H2 EXCEPT !.blocks[b].stale = @ + 1]
                 IN IF zero THEN DeleteBlock(H3, b) ELSE H3
            ELSE IF H2.blocks[b].shared_refs + H2.blocks[b].weak_refs = 0
            THEN DeleteBlock(H2, b) ELSE H2

\* SharedPtr<Node> s(new Node)
NodeCtorRaw ==
    /\ CanConstruct(shared, NumShared)
    /\ nextId <= MaxBlocks
    /\ LET H0 == [Heap EXCEPT !.objs[nextId] = NewNode]
           r == SharedFromRaw(H0, nextId, TRUE)
       IN /\ SetHeap(r.H)
          /\ shared' = Constructed(shared, r)
    /\ nextId' = nextId + 1
    /\ last' = Op("NodeCtorRaw", "none")
    /\ UNCHANGED <<weak, unique>>

\* auto s = MakeShared<Node>()
NodeCtorMake ==
    /\ CanConstruct(shared, NumShared)
    /\ nextId <= MaxBlocks
    /\ LET r == MakeShared(Heap, nextId, "ok")
       IN /\ SetHeap([r.H EXCEPT !.objs[nextId] = NewNode])
          /\ shared' = Constructed(shared, r)
    /\ nextId' = nextId + 1
    /\ last' = Op("NodeCtorMake", "none")
    /\ UNCHANGED <<weak, unique>>

\* s->self = s: WeakPtr::operator=(const SharedPtr<Y>&) on the member
NodeSetSelf(s) ==
    /\ Live(shared, s)
    /\ s.block_ # nullptr /\ s.ptr_ = s.block_
    /\ LET r == WeakFromShared(Heap, s)
           sw == SwapFields(r.h, objs[s.ptr_].self)
           H1 == DestroyWeak(r.H, sw[1])
       IN SetHeap([H1 EXCEPT !.objs[s.ptr_].self = sw[2]])
    /\ last' = Op("NodeSetSelf", "none")
    /\ UNCHANGED <<shared, weak, nextId, unique>>

\* a SharedPtr<Node> goes out of scope
NodeSharedDtor(this, zero) ==
    /\ Live(shared, this)
    /\ SetHeap(DestroySharedNode(Heap, this, zero))
    /\ shared' = Remove(shared, this)
    /\ last' = Op("NodeSharedDtor", "none")
    /\ UNCHANGED <<weak, nextId, unique>>

NextReentrant ==
    \/ NodeCtorRaw
    \/ NodeCtorMake
    \/ \E s \in LiveSet(shared) : NodeSetSelf(s)
    \/ \E t \in LiveSet(shared) : SharedCtorCopy(t)
    \/ \E t \in LiveSet(shared) : SharedCtorMove(t)
    \/ \E s \in LiveSet(shared) : WeakCtorShared(s)
    \/ \E w \in LiveSet(weak) : WeakCtorCopy(w)
    \/ \E w \in LiveSet(weak) : WeakLock(w)
    \/ \E w \in LiveSet(weak) : WeakDtor(w)
    \/ \E s \in LiveSet(shared), zero \in BOOLEAN : NodeSharedDtor(s, zero)

SpecReentrant == Init /\ [][NextReentrant]_vars

\* C16: when the managed object holds the only WeakPtr to its own block,
\* destroying the last SharedPtr deallocates the block exactly once, and
\* ~SharedPtr neither reads the block's counters nor deletes the block after
\* the nested ~WeakPtr has deallocated it.
ReentrantDeleteOnce ==
    \A b \in BlockIds :
        blocks[b].deleted <= 1 /\ blocks[b].stale = 0

\* C3: over any sequence of SharedPtr and WeakPtr operations on a block, the
\* WeakPtr held by the managed object included, the block is deallocated
\* at most once.
BlockDeletedAtMostOnce ==
    \A b \in BlockIds : blocks[b].deleted < 2

\* ------------------------------------------------------- a linked list
\* The client type struct Node { SharedPtr<Node> next; }: the managed object
\* holds a SharedPtr, which ~Node destroys from inside IfNoShared.  A list
\* has up to MaxBlocks + 1 nodes, each made by SharedPtr<Node>(new Node), so
\* every handle is (node, block of the node) or empty.
ListIds == 1..(MaxBlocks + 1)
ListHandles == {Handle(i, i) : i \in 0..(MaxBlocks + 1)}
LiveList(insts) == {h \in ListHandles : insts[h] > 0}

NewListNode == [st |-> "alive", dtors |-> 0, frees |-> 0, next |-> Empty]

\* SharedPtr<Node>::~SharedPtr with ControlBlockPtr<Node>::IfNoShared inlined:
\* `delete ptr_` ends the node's lifetime, destroys its member next (this
\* destructor again) and frees the node; then ptr_ = nullptr.
RECURSIVE DestroySharedList(_, _)
DestroySharedList(H, h) ==
    IF h.block_ = nullptr THEN H
    ELSE LET b == h.block_
             H1 == [H EXCEPT !.blocks[b].shared_refs = @ - 1]
             H2 == IF H1.blocks[b].shared_refs = 0
                   THEN LET o == H1.blocks[b].ptr_
                            D1 == [H1 EXCEPT !.objs[o].st = "destroyed",
                                             !.objs[o].dtors = @ + 1,
                                             !.objs[o].next = Empty]
                            D2 == DestroySharedList(D1, H1.objs[o].next)
                        IN [D2 EXCEPT !.objs[o].frees = @ + 1,
                                      !.blocks[b].ptr_ = nullptr,
                                      !.blocks[b].released = @ + 1,
                                      !.blocks[b].stale =
                                          IF D2.blocks[b].st = "freed"
                                          THEN @ + 1 ELSE @]
                   ELSE H1
         IN IF H2.blocks[b].shared_refs + H2.blocks[b].weak_refs = 0
            THEN DeleteBlock(H2, b) ELSE H2

InitList ==
    /\ blocks = [b \in ListIds |-> NoBlock]
    /\ objs = [b \in ListIds |-> NoObj]
    /\ shared = [h \in ListHandles |-> 0]
    /\ weak = [h \in ListHandles |-> 0]
    /\ nextId = 1
    /\ last = Op("init", "none")
    /\ unique = [p \in RawPtrs |-> 0]

\* SharedPtr<Node> s(new Node)
ListNew ==
    /\ CountIn(shared, LiveList(shared)) < NumShared
    /\ nextId \in ListIds
    /\ LET H0 == [Heap EXCEPT !.objs[nextId] = NewListNode]
           r == SharedFromRaw(H0, nextId, TRUE)
       IN /\ SetHeap(r.H)
          /\ shared' = Constructed(shared, r)
    /\ nextId' = nextId + 1
    /\ last' = Op("ListNew", "none")
    /\ UNCHANGED <<weak, unique>>

\* SharedPtr<Node> s(other)
ListCopy(other) ==
    /\ CountIn(shared, LiveList(shared)) < NumShared
    /\ Live(shared, other)
    /\ LET r == SharedCopy(Heap, other)
       IN /\ SetHeap(r.H)
          /\ shared' = Constructed(shared, r)
    /\ last' = Op("ListCopy", "none")
    /\ UNCHANGED <<weak, nextId, unique>>

\* s->next = t: SharedPtr<T>(t).Swap(s->next), then the temporary (the old
\* next) is destroyed
ListLink(s, t) ==
    /\ Live(shared, s) /\ Live(shared, t)
    /\ s.ptr_ # nullptr
    /\ LET r == SharedCopy(Heap, t)
           sw == SwapFields(r.h, objs[s.ptr_].next)
           H1 == [r.H EXCEPT !.objs[s.ptr_].next = sw[2]]
       IN SetHeap(DestroySharedList(H1, sw[1]))
    /\ last' = Op("ListLink", "none")
    /\ UNCHANGED <<shared, weak, nextId, unique>>

\* an assignment that releases *this first and then copies other, which was
\* a member of the node just destroyed
ListAdvanceReleaseFirst(this) ==
    /\ Live(shared, this)
    /\ this.ptr_ # nullptr
    /\ LET other == objs[this.ptr_].next
           r == SharedCopy(DestroySharedList(Heap, this), other)
       IN /\ SetHeap(r.H)
          /\ shared' = Add(Remove(shared, this), r.h)
    /\ last' = Op("ListAdvance", "none")
    /\ UNCHANGED <<weak, nextId, unique>>

\* this = this->next: SharedPtr<T>(other).Swap(*this) with other the member
\* next of the node *this owns; the temporary, now the old node's owner, is
\* destroyed last
ListAdvance(this) ==
    /\ Live(shared, this)
    /\ this.ptr_ # nullptr
    /\ LET r == SharedCopy(Heap, objs[this.ptr_].next)
           sw == SwapFields(r.h, this)
       IN /\ SetHeap(DestroySharedList(r.H, sw[1]))
          /\ shared' = Add(Remove(shared, this), sw[2])
    /\ last' = Op("ListAdvance", "none")
    /\ UNCHANGED <<weak, nextId, unique>>

\* a SharedPtr<Node> goes out of scope
ListDtor(this) ==
    /\ Live(shared, this)
    /\ SetHeap(DestroySharedList(Heap, this))
    /\ shared' = Remove(shared, this)
    /\ last' = Op("ListDtor", "none")
    /\ UNCHANGED <<weak, nextId, unique>>

NextList ==
    \/ ListNew
    \/ \E t \in LiveList(shared) : ListCopy(t)
    \/ \E s, t \in LiveList(shared) : ListLink(s, t)
    \/ \E s \in LiveList(shared) : ListAdvance(s)
    \/ \E s \in LiveList(shared) : ListDtor(s)

SpecList == InitList /\ [][NextList]_vars

\* C19: p = p->next, with p the only owner of a node whose member next is
\* the only handle of the next node, copies the member before the old node
\* is released: afterwards p owns the next node with UseCount() 1 and that
\* node is alive, and the old node and its block were released once.  No
\* list operation ever releases an object or deletes a block twice or
\* touches a deallocated block.
AdvanceKeepsNext ==
    [][/\ \A p \in ListHandles :
            (last'.op = "ListAdvance" /\ shared[p] > 0 /\ ListAdvance(p)) =>
                LET a == p.block_
                    n == objs[a].next
                IN /\ shared' = Add(Remove(shared, p), n)
                   /\ (blocks[a].shared_refs = 1 /\ n.block_ \notin {nullptr, a}
                          /\ blocks[n.block_].shared_refs = 1) =>
                         /\ UseCount(Heap', n) = 1
                         /\ blocks'[n.block_].st = "live"
                         /\ blocks'[n.block_].released = 0
                         /\ objs'[n.block_].st = "alive"
                         /\ blocks'[a].st = "freed"
                         /\ blocks'[a].released = 1
                         /\ blocks'[a].deleted = 1
                         /\ objs'[a].st = "destroyed"
                         /\ objs'[a].dtors = 1
                         /\ objs'[a].frees = 1
       /\ \A b \in ListIds :
            /\ blocks'[b].released <= 1 /\ blocks'[b].deleted <= 1
            /\ blocks'[b].stale = 0 /\ blocks'[b].early = 0
            /\ objs'[b].dtors <= 1 /\ objs'[b].frees <= 1
       /\ \A h \in ListHandles :
            (shared'[h] > 0 /\ h.block_ # nullptr) =>
                /\ blocks'[h.block_].st = "live"
                /\ objs'[h.block_].st = "alive"]_vars

\* p has advanced from the head, which is destroyed, to the second node,
\* which it alone owns
AdvancedReached ==
    /\ last.op = "ListAdvance"
    /\ CountIn(shared, LiveList(shared)) = 1
    /\ \E a, b \in ListIds :
          /\ a # b
          /\ blocks[a].st = "freed" /\ blocks[a].deleted = 1
          /\ objs[a].st = "destroyed"
          /\ shared[Handle(b, b)] = 1
          /\ blocks[b].shared_refs = 1
          /\ objs[b].st = "alive"

\* ---------------------------------------------------------------- UniquePtr
\* UniquePtr<T, Slug<T>> (and its T[] specialization, whose members have the
\* same bodies): the only field that matters is uptr_.GetFirst(); Slug has no
\* state.  objs[p] is the object behind raw pointer p; objs[nullptr] only
\* counts the deleter calls made with a null argument.
NoPointee == [st |-> "none", calls |-> 0, out |-> FALSE]
NewPointee == [st |-> "alive", calls |-> 0, out |-> FALSE]

Hold(U, p) == [U EXCEPT ![p] = @ + 1]
Drop(U, p) == [U EXCEPT ![p] = @ - 1]
RECURSIVE HoldersUpTo(_, _)
HoldersUpTo(U, n) == IF n < 0 THEN 0 ELSE U[n] + HoldersUpTo(U, n - 1)
\* the number of live UniquePtr instances
Holders(U) == HoldersUpTo(U, MaxPtrs)
Held(U) == {p \in RawPtrs : U[p] > 0}

\* Slug::operator()(T* ptr): delete ptr
Slug(O, ptr) ==
    [O EXCEPT ![ptr].calls = @ + 1,
              ![ptr].st = IF ptr # nullptr THEN "destroyed" ELSE @]

\* a Release() that returns the pointer and keeps it
ReleaseKeeping(first) == [first |-> first, ret |-> first]

\* T* Release(): temp = first; first = nullptr; return temp
Release(first) == [first |-> nullptr, ret |-> first]

\* void Reset(T* ptr): old_ptr = first; first = ptr; if (old_ptr) deleter(old_ptr)
Reset(O, first, ptr) ==
    [O |-> IF first # nullptr THEN Slug(O, first) ELSE O, first |-> ptr]

\* ~UniquePtr(): if (first) deleter(Get())
DestroyUnique(O, first) == IF first # nullptr THEN Slug(O, first) ELSE O

InitUnique ==
    /\ blocks = [b \in BlockIds |-> NoBlock]
    /\ objs = [p \in RawPtrs |-> NoPointee]
    /\ shared = [h \in Handles |-> 0]
    /\ weak = [h \in Handles |-> 0]
    /\ nextId = 1
    /\ last = Op("init", "none")
    /\ unique = [p \in RawPtrs |-> 0]

\* UniquePtr<T> u;  UniquePtr<T> u(nullptr);
UniqueDefault ==
    /\ Holders(unique) < NumUnique
    /\ unique' = Hold(unique, nullptr)
    /\ last' = Op("UniqueDefault", "none")
    /\ UNCHANGED <<blocks, objs, shared, weak, nextId>>

\* UniquePtr<T> u(new T): every raw pointer is given to one constructor
UniqueCtorRaw ==
    /\ Holders(unique) < NumUnique
    /\ nextId <= MaxPtrs
    /\ objs' = [objs EXCEPT ![nextId] = NewPointee]
    /\ unique' = Hold(unique, nextId)
    /\ nextId' = nextId + 1
    /\ last' = Op("UniqueCtorRaw", "none")
    /\ UNCHANGED <<blocks, shared, weak>>

\* UniquePtr<T> u(std::move(other)): uptr_(other.Release(), ...)
UniqueCtorMove(other) ==
    /\ Holders(unique) < NumUnique
    /\ unique[other] > 0
    /\ LET r == Release(other)
       IN unique' = Hold(Hold(Drop(unique, other), r.first), r.ret)
    /\ last' = Op("UniqueCtorMove", "none")
    /\ UNCHANGED <<blocks, objs, shared, weak, nextId>>

\* this = std::move(other) on two instances: this->Reset(other.Release())
UniqueAssignMove(this, other) ==
    /\ unique[this] > 0
    /\ Drop(unique, this)[other] > 0
    /\ LET r == Release(other)
           s == Reset(objs, this, r.ret)
       IN /\ objs' = s.O
          /\ unique' = Hold(Hold(Drop(Drop(unique, this), other), r.first),
                            s.first)
    /\ last' = Op("UniqueAssignMove", "none")
    /\ UNCHANGED <<blocks, shared, weak, nextId>>

\* this = std::move(this): other.Release() empties *this before Reset reads it
UniqueSelfAssignMove(this) ==
    /\ unique[this] > 0
    /\ LET r == Release(this)
           s == Reset(objs, r.first, r.ret)
       IN /\ objs' = s.O
          /\ unique' = Hold(Drop(unique, this), s.first)
    /\ last' = Op("UniqueSelfAssignMove", "none")
    /\ UNCHANGED <<blocks, shared, weak, nextId>>

\* T* raw = this.Release(): the caller owns raw from now on
UniqueRelease(this) ==
    /\ unique[this] > 0
    /\ LET r == Release(this)
       IN /\ unique' = Hold(Drop(unique, this), r.first)
          /\ objs' = IF r.ret # nullptr
                     THEN [objs EXCEPT ![r.ret].out = TRUE]
                     ELSE objs
    /\ last' = Op("UniqueRelease", "none")
    /\ UNCHANGED <<blocks, shared, weak, nextId>>

\* this.Reset();  this.Reset(nullptr);  this = nullptr
UniqueReset(this) ==
    /\ unique[this] > 0
    /\ LET s == Reset(objs, this, nullptr)
       IN /\ objs' = s.O
          /\ unique' = Hold(Drop(unique, this), s.first)
    /\ last' = Op("UniqueReset", "none")
    /\ UNCHANGED <<blocks, shared, weak, nextId>>

\* this.Reset(new T)
UniqueResetPtr(this) ==
    /\ unique[this] > 0
    /\ nextId <= MaxPtrs
    /\ LET s == Reset([objs EXCEPT ![nextId] = NewPointee], this, nextId)
       IN /\ objs' = s.O
          /\ unique' = Hold(Drop(unique, this), s.first)
    /\ nextId' = nextId + 1
    /\ last' = Op("UniqueResetPtr", "none")
    /\ UNCHANGED <<blocks, shared, weak>>

\* this.Swap(other): std::swap of the two pointers
UniqueSwap(this, other) ==
    /\ unique[this] > 0
    /\ Drop(unique, this)[other] > 0
    /\ unique' = Hold(Hold(Drop(Drop(unique, this), other), other), this)
    /\ last' = Op("UniqueSwap", "none")
    /\ UNCHANGED <<blocks, objs, shared, weak, nextId>>

\* ~UniquePtr()
UniqueDtor(this) ==
    /\ unique[this] > 0
    /\ objs' = DestroyUnique(objs, this)
    /\ unique' = Drop(unique, this)
    /\ last' = Op("UniqueDtor", "none")
    /\ UNCHANGED <<blocks, shared, weak, nextId>>

NextUnique ==
    \/ UniqueDefault
    \/ UniqueCtorRaw
    \/ \E other \in Held(unique) : UniqueCtorMove(other)
    \/ \E this, other \in Held(unique) : UniqueAssignMove(this, other)
    \/ \E this \in Held(unique) : UniqueSelfAssignMove(this)
    \/ \E this \in Held(unique) : UniqueRelease(this)
    \/ \E this \in Held(unique) : UniqueReset(this)
    \/ \E this \in Held(unique) : UniqueResetPtr(this)
    \/ \E this, other \in Held(unique) : UniqueSwap(this, other)
    \/ \E this \in Held(unique) : UniqueDtor(this)

SpecUnique == InitUnique /\ [][NextUnique]_vars

\* C20: every non-null raw pointer is held by at most one UniquePtr; the
\* deleter has been called exactly once on a pointer whose holder was
\* destroyed, Reset or move-assigned over, and never on a pointer that is
\* still held (moved or not), on one handed out by Release(), or on nullptr.
UniqueSingleOwner ==
    /\ objs[nullptr].calls = 0
    /\ \A p \in 1..MaxPtrs :
          /\ unique[p] <= 1
          /\ objs[p].calls =
                (IF objs[p].st # "none" /\ unique[p] = 0 /\ ~objs[p].out
                 THEN 1 ELSE 0)
          /\ objs[p].st = (IF objs[p].st = "none" THEN "none"
                           ELSE IF objs[p].calls = 0 THEN "alive"
                           ELSE "destroyed")

\* a move assignment deleted the pointer it replaced and the moved pointer
\* is held by the target only
MoveAssignedOverReached ==
    /\ last.op = "UniqueAssignMove"
    /\ \E p, q \in 1..MaxPtrs :
          /\ p # q
          /\ objs[p].calls = 1 /\ unique[p] = 0
          /\ objs[q].calls = 0 /\ unique[q] = 1
          /\ unique[nullptr] = 1

====
